---- MODULE Spec2Model ----
(***************************************************************************)
(* MessageClearance: the analysis pipeline (analyzeMessage in utils/ai.js, *)
(* kept in src/unnamed/part_001) and the session state machine (useChat in *)
(* src/src/hooks/useChat.js).                                              *)
(*                                                                         *)
(* JavaScript is single threaded: the code between two awaits runs as one  *)
(* step, and the promise reactions (microtasks) queued by a step run       *)
(* before the next timer, network or user event.  An action below is one   *)
(* such event together with the microtasks it queues.                      *)
(***************************************************************************)
EXTENDS Integers, Sequences, FiniteSets, TLC

VARIABLES
    status,              \* useChat: status
    currentMessage,      \* useChat: currentMessage
    result,              \* useChat: result
    error,               \* useChat: error
    history,             \* useChat: history (useLocalStorage state)
    abortControllerRef,  \* useChat: abortControllerRef.current (0 = null)
    isMounted,           \* useChat: isMountedRef.current
    apiKey,              \* useApiKey: apiKey
    aborted,             \* the AbortControllers whose signal is aborted
    runs,                \* the calls of analyzeMessage, by controller id
    nruns,               \* number of calls of analyzeMessage started
    lastOp,              \* history variable: the last submit, cancel, reset or unmount
    applied,             \* history variable: which outcomes reached the state
    input,               \* the arguments of a direct call of a pure function
    output,              \* what that call returned or threw
    storedValue,         \* useLocalStorage: storedValue
    storage,             \* localStorage: the item under the hook's key
    timers,              \* the debounce timers that are set and not cleared
    debounceTimerRef,    \* useLocalStorage: debounceTimerRef.current (0 = null)
    nchanges,            \* number of changes of storedValue since the mount
    lastWrite            \* history variable: the timer that wrote storage last

\* The state of useLocalStorage and of the storage under it.
storeVars == <<storedValue, storage, timers, debounceTimerRef, nchanges,
               lastWrite>>

vars == <<status, currentMessage, result, error, history, abortControllerRef,
          isMounted, apiKey, aborted, runs, nruns, lastOp, applied, input,
          output, storeVars>>

-----------------------------------------------------------------------------
(* Bounds of the model *)

MaxRuns == 2
MaxRetriesBound == 6
MaxChanges == 3

(* Program constants *)

DefaultMaxRetries == 3
BackoffBaseMs == 1000
BackoffCapMs == 10000
HistoryCap == 50
DebounceMs == 300

RunIds == 1..MaxRuns

-----------------------------------------------------------------------------
(* Values *)

Null == [t |-> "null"]

\* Strings are sequences of characters; " " is white space.
Texts == {<<>>, <<" ">>, <<"a">>, <<" ", "a", " ">>}
ApiKeys == {<<>>, <<" ">>, <<"k">>}

RECURSIVE TrimStart(_)
TrimStart(s) ==
    IF s # <<>> /\ Head(s) = " " THEN TrimStart(Tail(s)) ELSE s

RECURSIVE TrimEnd(_)
TrimEnd(s) ==
    IF s # <<>> /\ s[Len(s)] = " " THEN TrimEnd(SubSeq(s, 1, Len(s) - 1)) ELSE s

Trim(s) == TrimEnd(TrimStart(s))

Min(a, b) == IF a <= b THEN a ELSE b

RECURSIVE Pow2(_)
Pow2(n) == IF n <= 0 THEN 1 ELSE 2 * Pow2(n - 1)

CHAT_STATUS == [IDLE |-> "idle", SCANNING |-> "scanning",
                COMPLETE |-> "complete", ERROR |-> "error"]

AI_ERROR_TYPES == {"INVALID_API_KEY", "RATE_LIMITED", "NETWORK_ERROR",
                   "INVALID_RESPONSE", "SERVER_ERROR", "TIMEOUT", "UNKNOWN"}

\* Exceptions that are not AIError, by name and message.
AbortError == "AbortError"
FetchTypeError == "TypeError: Failed to fetch"
LoadTypeError == "TypeError: Load failed"
PropertyTypeError == "TypeError: Cannot read properties"
JsonSyntaxError == "SyntaxError: Unexpected token"

IsAIError(e) == e \in AI_ERROR_TYPES
IsTypeError(e) == e \in {FetchTypeError, LoadTypeError, PropertyTypeError}
MessageIncludesFetch(e) == e = FetchTypeError

-----------------------------------------------------------------------------
(* The history the hook loads from localStorage when it mounts *)

\* An entry written by an earlier session: ids below 0, the oldest first.
StoredResult == [t |-> "result", parsed |-> [t |-> "stored"], originalLength |-> 1]
StoredEntry(id) == [id |-> id, originalMessage |-> <<"a">>, result |-> StoredResult]
Stored(n) == [i \in 1..n |-> StoredEntry(i - n - 1)]

\* The stored histories: empty and full.
StoredHistories == {Stored(0), Stored(HistoryCap)}

\* The ids the user asks removeFromHistory to remove: the newest stored entry.
RemoveIds == {-1}

-----------------------------------------------------------------------------
(* The provider's answers *)

HttpStatuses == {200, 401, 403, 404, 429, 500}

\* response.ok
Ok(st) == st >= 200 /\ st <= 299

\* The candidate objects a model output can hold: the fields the validator
\* reads, each by the type of its value.
Candidate(verdict, risks, rewrites, short, warm, confident) ==
    [t |-> "object", verdict |-> verdict, risks |-> risks, rewrites |-> rewrites,
     short |-> short, warm |-> warm, confident |-> confident]

GoodCandidate == Candidate("needs_edit", "array", "object", "string", "string", "string")
BadVerdictCandidate == Candidate("maybe", "array", "object", "string", "string", "string")
NoWarmCandidate == Candidate("high_risk", "array", "object", "string", "undefined", "string")

\* An object without any of the fields, such as {}.
EmptyCandidate ==
    Candidate("undefined", "undefined", "undefined", "undefined", "undefined",
              "undefined")

\* A model output is a string of tokens: "{" and "}", white space " ", the
\* fence "F" (three backticks), the tag "j" (the word json), a word "w" of
\* prose, and the member lists "G", "V", "W" of the three candidates above.
MemberTokens == {"G", "V", "W"}

\* The fields of the object written by the text c (white space removed).
FieldsOf(c) ==
    IF c = <<"{", "G", "}">> THEN GoodCandidate
    ELSE IF c = <<"{", "V", "}">> THEN BadVerdictCandidate
    ELSE IF c = <<"{", "W", "}">> THEN NoWarmCandidate
    ELSE EmptyCandidate

\* choices[0].message.content: absent, null, or a string.
Undefined == [t |-> "undefined"]
Str(text) == [t |-> "string", text |-> text]

\* The contents the provider answers with: a raw object, a fenced and tagged
\* one, a raw one with a bad verdict, one in prose that lacks a rewrite, and
\* text without any object.
Contents ==
    {Undefined, Null,
     Str(<<"{", "G", "}">>),
     Str(<<"F", "j", " ", "{", "G", "}", " ", "F">>),
     Str(<<"{", "V", "}">>),
     Str(<<"w", " ", "{", "W", "}">>),
     Str(<<"w">>)}

\* The body of a 2xx response: not JSON at all, or the JSON value `data`.
NotJson == [kind |-> "notjson", choices |-> "undefined", message |-> "undefined",
            content |-> Undefined]
JsonNull == [kind |-> "null", choices |-> "undefined", message |-> "undefined",
             content |-> Undefined]
Data(choices, message, content) ==
    [kind |-> "object", choices |-> choices, message |-> message, content |-> content]

Bodies ==
    {NotJson, JsonNull,
     Data("undefined", "undefined", Undefined),
     Data("empty", "undefined", Undefined),
     Data("one", "undefined", Undefined)}
    \cup {Data("one", "object", c) : c \in Contents}

-----------------------------------------------------------------------------
(* Pure functions of utils/ai.js *)

\* The values whose typeof is 'object' and that are truthy.
ObjectTypes == {"object", "array"}

validateWithoutWarm(data) ==
    IF data.t \notin ObjectTypes THEN "Response is not an object"
    ELSE IF data.verdict \notin {"good_to_send", "needs_edit", "high_risk"}
        THEN "Invalid verdict"
    ELSE IF data.risks # "array" THEN "Missing or invalid risks array"
    ELSE IF data.rewrites \notin ObjectTypes
        THEN "Missing or invalid rewrites object"
    ELSE IF data.short # "string" THEN "Missing rewrite: short"
    ELSE IF data.confident # "string" THEN "Missing rewrite: confident"
    ELSE "null"

validateRewritesFirst(data) ==
    IF data.t \notin ObjectTypes THEN "Response is not an object"
    ELSE IF data.rewrites \notin ObjectTypes
        THEN "Missing or invalid rewrites object"
    ELSE IF data.verdict \notin {"good_to_send", "needs_edit", "high_risk"}
        THEN "Invalid verdict"
    ELSE IF data.risks # "array" THEN "Missing or invalid risks array"
    ELSE IF data.short # "string" THEN "Missing rewrite: short"
    ELSE IF data.warm # "string" THEN "Missing rewrite: warm"
    ELSE IF data.confident # "string" THEN "Missing rewrite: confident"
    ELSE "null"

\* null when valid, else the description of the first failing check.
validateAnalysisResponse(data) ==
    IF data.t \notin ObjectTypes THEN "Response is not an object"
    ELSE IF data.verdict \notin {"good_to_send", "needs_edit", "high_risk"}
        THEN "Invalid verdict"
    ELSE IF data.risks # "array" THEN "Missing or invalid risks array"
    ELSE IF data.rewrites \notin ObjectTypes
        THEN "Missing or invalid rewrites object"
    ELSE IF data.short # "string" THEN "Missing rewrite: short"
    ELSE IF data.warm # "string" THEN "Missing rewrite: warm"
    ELSE IF data.confident # "string" THEN "Missing rewrite: confident"
    ELSE "null"

\* [threw |-> FALSE, value |-> v] or [threw |-> TRUE, error |-> e].
Returned(v) == [threw |-> FALSE, value |-> v, error |-> "none"]
Thrown(e) == [threw |-> TRUE, value |-> Null, error |-> e]

\* The text s is one JSON object: braces balanced from the first token to the
\* last, with member lists, nested objects and white space inside.
RECURSIVE Balanced(_, _, _)
Balanced(s, i, depth) ==
    IF i > Len(s) THEN depth = 0
    ELSE IF s[i] = "{" THEN (i = 1 \/ depth > 0) /\ Balanced(s, i + 1, depth + 1)
    ELSE IF s[i] = "}" THEN depth > 0 /\ Balanced(s, i + 1, depth - 1)
    ELSE s[i] \in MemberTokens \cup {" "} /\ depth > 0 /\ Balanced(s, i + 1, depth)

IsObjectText(s) == s # <<>> /\ Balanced(s, 1, 0)

\* The text without its white space: two texts write equal objects exactly
\* when these are equal.
Squeeze(s) ==
    LET Keep(c) == c # " " IN SelectSeq(s, Keep)

\* The value JSON.parse returns for an object text.
JsonObject(c) ==
    LET f == FieldsOf(c)
    IN  [t |-> "object", text |-> c, verdict |-> f.verdict, risks |-> f.risks,
         rewrites |-> f.rewrites, short |-> f.short, warm |-> f.warm,
         confident |-> f.confident]

\* The texts of the values kept in localStorage are strings of these tokens:
\* the digits "1" and "2", the words "true" and "null", "quoted_a" (the
\* letter a within double quotes), "{o}" (an object literal), "[", "]", ","
\* and the letter "a".
Digits == {"1", "2"}
ItemTokens == Digits \cup {"true", "null", "quoted_a", "{o}"}

\* The value a token writes.
ItemValue(tok) ==
    IF tok \in Digits THEN [t |-> "number", digits |-> <<tok>>]
    ELSE IF tok = "true" THEN [t |-> "boolean", value |-> TRUE]
    ELSE IF tok = "null" THEN Null
    ELSE IF tok = "quoted_a" THEN [t |-> "string", text |-> <<"a">>]
    ELSE [t |-> "object"]

\* The text is a number: digits only.
IsNumberText(s) == s # <<>> /\ \A i \in 1..Len(s) : s[i] \in Digits

\* The text is an array: "[", items separated by ",", "]".
IsArrayText(s) ==
    /\ Len(s) >= 2 /\ s[1] = "[" /\ s[Len(s)] = "]"
    /\ \/ Len(s) = 2
       \/ /\ Len(s) % 2 = 1
          /\ \A i \in 2..(Len(s) - 1) :
                IF i % 2 = 0 THEN s[i] \in ItemTokens ELSE s[i] = ","

\* The items of an array text.
ArrayItems(s) ==
    [i \in 1..((Len(s) - 1) \div 2) |-> ItemValue(s[2 * i])]

\* JSON.stringify(value) of a value that is not a string.
ItemText(v) ==
    IF v.t = "number" THEN v.digits[1]
    ELSE IF v.t = "boolean" THEN "true"
    ELSE IF v.t = "null" THEN "null"
    ELSE IF v.t = "string" THEN "quoted_a"
    ELSE "{o}"

RECURSIVE Joined(_, _)
Joined(items, i) ==
    IF i > Len(items) THEN <<>>
    ELSE (IF i > 1 THEN <<",">> ELSE <<>>) \o <<ItemText(items[i])>>
         \o Joined(items, i + 1)

JsonStringify(v) ==
    IF v.t = "number" THEN v.digits
    ELSE IF v.t = "array" THEN <<"[">> \o Joined(v.items, 1) \o <<"]">>
    ELSE <<ItemText(v)>>

\* JSON.parse(text): white space around the value is allowed.
JsonParse(text) ==
    IF IsObjectText(Trim(text)) THEN Returned(JsonObject(Squeeze(text)))
    ELSE IF IsNumberText(text) THEN Returned([t |-> "number", digits |-> text])
    ELSE IF IsArrayText(text)
        THEN Returned([t |-> "array", items |-> ArrayItems(text)])
    ELSE IF Len(text) = 1 /\ text[1] \in ItemTokens
        THEN Returned(ItemValue(text[1]))
    ELSE Thrown(JsonSyntaxError)

\* The positions of a token in a text.
Positions(s, tok) == {i \in 1..Len(s) : s[i] = tok}
First(S) == CHOOSE i \in S : \A j \in S : i <= j
Last(S) == CHOOSE i \in S : \A j \in S : j <= i

\* content.match(/```(?:json)?\s*([\s\S]*?)```/): group 1 of the leftmost
\* match, between the first fence and the next one, after the optional tag
\* and white space.
HasFenceMatch(s) == Cardinality(Positions(s, "F")) >= 2
FenceGroup(s) ==
    LET i == First(Positions(s, "F"))
        j == First(Positions(s, "F") \ {i})
        inner == SubSeq(s, i + 1, j - 1)
        untagged == IF inner # <<>> /\ Head(inner) = "j" THEN Tail(inner) ELSE inner
    IN  TrimStart(untagged)

\* content.match(/\{[\s\S]*\}/): from the first "{" to the last "}".
HasObjectMatch(s) ==
    /\ Positions(s, "{") # {} /\ Positions(s, "}") # {}
    /\ First(Positions(s, "{")) < Last(Positions(s, "}"))
ObjectSpan(s) == SubSeq(s, First(Positions(s, "{")), Last(Positions(s, "}")))

parseAIResponseRaw(content) ==
    IF content.t = "null" THEN Returned(Null)
    ELSE IF content.t = "undefined" THEN Thrown(PropertyTypeError)
    ELSE LET s == content.text
         IN  IF ~JsonParse(s).threw THEN JsonParse(s)
             ELSE IF HasFenceMatch(s) /\ ~JsonParse(Trim(FenceGroup(s))).threw
             THEN JsonParse(Trim(FenceGroup(s)))
             ELSE IF HasObjectMatch(s) /\ ~JsonParse(ObjectSpan(s)).threw
             THEN JsonParse(ObjectSpan(s))
             ELSE Thrown(JsonSyntaxError)

parseAIResponse(content) ==
    IF content.t = "null" THEN Returned(Null)              \* JSON.parse(null)
    ELSE IF content.t = "undefined" THEN Thrown(PropertyTypeError)  \* content.match
    ELSE LET s == content.text
         IN  IF ~JsonParse(s).threw THEN JsonParse(s)
             ELSE IF HasFenceMatch(s) /\ ~JsonParse(Trim(FenceGroup(s))).threw
             THEN JsonParse(Trim(FenceGroup(s)))
             ELSE IF HasObjectMatch(s) /\ ~JsonParse(ObjectSpan(s)).threw
             THEN JsonParse(ObjectSpan(s))
             ELSE Thrown("INVALID_RESPONSE")

ClassifyStatusOnly401(st) ==
    IF st = 401 THEN "INVALID_API_KEY"
    ELSE IF st = 429 THEN "RATE_LIMITED"
    ELSE IF st >= 500 THEN "SERVER_ERROR"
    ELSE "UNKNOWN"

ClassifyStatusServerAbove500(st) ==
    IF st = 401 \/ st = 403 THEN "INVALID_API_KEY"
    ELSE IF st = 429 THEN "RATE_LIMITED"
    ELSE IF st > 500 THEN "SERVER_ERROR"
    ELSE "UNKNOWN"

\* The AIError type thrown for a non-2xx status.
ClassifyStatus(st) ==
    IF st = 401 \/ st = 403 THEN "INVALID_API_KEY"
    ELSE IF st = 429 THEN "RATE_LIMITED"
    ELSE IF st >= 500 THEN "SERVER_ERROR"
    ELSE "UNKNOWN"

BackoffFromTwo(attempt) == Min(BackoffBaseMs * Pow2(attempt), BackoffCapMs)

BackoffUncapped(attempt) == BackoffBaseMs * Pow2(attempt - 1)

\* Math.min(1000 * Math.pow(2, attempt - 1), 10000)
Backoff(attempt) == Min(BackoffBaseMs * Pow2(attempt - 1), BackoffCapMs)

-----------------------------------------------------------------------------
(* One call of analyzeMessage.  pc is where the call is suspended:          *)
(*   "fetch"  awaiting fetch(), the request is on the network               *)
(*   "body"   awaiting response.text() / response.json()                    *)
(*   "sleep"  awaiting sleep(delay)                                         *)
(*   "done"   the promise is settled (outcome "resolved" or "rejected")     *)
(* st is the status of the attempt's response.  calls counts the requests   *)
(* put on the network and delays lists the backoff delays started.          *)
(* History fields: cause is what ended the attempt, once it has ended       *)
(* ("status", "network", "abort", "timeout", or the shape of the 2xx body), *)
(* and clean                                                                *)
(* tells that every failed attempt so far failed by a retryable answer of   *)
(* the provider (a non-2xx status other than 401/403, or a network error).  *)

NoRun ==
    [pc |-> "none", hook |-> FALSE, message |-> <<>>, hist0 |-> <<>>,
     ctl |-> 0, maxRetries |-> 0, attempt |-> 0, st |-> 0, remaining |-> 0,
     calls |-> 0, delays |-> <<>>, cause |-> "none", clean |-> TRUE,
     lastError |-> "none", outcome |-> "pending", error |-> "none",
     result |-> Null]

RetryableAnswer(cause, st) ==
    \/ cause = "network"
    \/ cause = "status" /\ ~Ok(st) /\ st \notin {401, 403}

Caused(run, cause) ==
    [run EXCEPT !.cause = cause, !.clean = @ /\ RetryableAnswer(cause, run.st)]

Succeeded(run) == [run EXCEPT !.cause = "content"]

\* The shape of a 2xx body, as far as analyzeMessage looks into it.
BodyCause(body) ==
    IF body.kind = "notjson" THEN "notjson"
    ELSE IF body.kind = "null" THEN "nulldata"
    ELSE IF body.choices # "one" THEN "nochoices"
    ELSE IF body.message = "undefined" THEN "nomessage"
    ELSE IF body.content.t = "undefined" THEN "nocontent"
    ELSE "content"

\* throw e out of analyzeMessage
Throw(run, e) ==
    [run EXCEPT !.pc = "done", !.outcome = "rejected", !.error = e,
                !.remaining = 0]

\* return {...parsed, _meta: {model, timestamp, originalLength}}
Return(run, parsed) ==
    [run EXCEPT !.pc = "done", !.outcome = "resolved",
                !.result = [t |-> "result", parsed |-> parsed,
                            originalLength |-> Len(run.message)]]

CatchOneShort(run, e) ==
    IF IsAIError(e) /\ e \in {"INVALID_API_KEY", "INVALID_RESPONSE"}
    THEN Throw([run EXCEPT !.lastError = e], e)
    ELSE IF e = AbortError
    THEN Throw([run EXCEPT !.lastError = e], "TIMEOUT")
    ELSE LET last == IF IsTypeError(e) /\ MessageIncludesFetch(e)
                     THEN "NETWORK_ERROR" ELSE e
             r1 == [run EXCEPT !.lastError = last]
         IN  IF run.attempt + 1 < run.maxRetries
             THEN [r1 EXCEPT !.pc = "sleep",
                             !.remaining = Backoff(run.attempt),
                             !.delays = Append(@, Backoff(run.attempt))]
             ELSE Throw(r1, last)

CatchDelaysBeforeFailing(run, e) ==
    IF IsAIError(e) /\ e \in {"INVALID_API_KEY", "INVALID_RESPONSE"}
    THEN Throw([run EXCEPT !.lastError = e], e)
    ELSE IF e = AbortError
    THEN Throw([run EXCEPT !.lastError = e], "TIMEOUT")
    ELSE LET last == IF IsTypeError(e) /\ MessageIncludesFetch(e)
                     THEN "NETWORK_ERROR" ELSE e
             r1 == [run EXCEPT !.lastError = last,
                               !.delays = Append(@, Backoff(run.attempt))]
         IN  IF run.attempt < run.maxRetries
             THEN [r1 EXCEPT !.pc = "sleep", !.remaining = Backoff(run.attempt)]
             ELSE Throw(r1, last)

CatchOneMore(run, e) ==
    IF IsAIError(e) /\ e \in {"INVALID_API_KEY", "INVALID_RESPONSE"}
    THEN Throw([run EXCEPT !.lastError = e], e)
    ELSE IF e = AbortError
    THEN Throw([run EXCEPT !.lastError = e], "TIMEOUT")
    ELSE LET last == IF IsTypeError(e) /\ MessageIncludesFetch(e)
                     THEN "NETWORK_ERROR" ELSE e
             r1 == [run EXCEPT !.lastError = last]
         IN  IF run.attempt <= run.maxRetries
             THEN [r1 EXCEPT !.pc = "sleep",
                             !.remaining = Backoff(run.attempt),
                             !.delays = Append(@, Backoff(run.attempt))]
             ELSE Throw(r1, last)

\* The catch block of the retry loop, and the loop's exit.
Catch(run, e) ==
    IF IsAIError(e) /\ e \in {"INVALID_API_KEY", "INVALID_RESPONSE"}
    THEN Throw([run EXCEPT !.lastError = e], e)
    ELSE IF e = AbortError
    THEN Throw([run EXCEPT !.lastError = e], "TIMEOUT")
    ELSE LET last == IF IsTypeError(e) /\ MessageIncludesFetch(e)
                     THEN "NETWORK_ERROR" ELSE e
             r1 == [run EXCEPT !.lastError = last]
         IN  IF run.attempt < run.maxRetries
             THEN [r1 EXCEPT !.pc = "sleep",
                             !.remaining = Backoff(run.attempt),
                             !.delays = Append(@, Backoff(run.attempt))]
             ELSE Throw(r1, last)

\* The head of one iteration: compose the signals and call fetch.  fetch with
\* an aborted signal rejects at once and sends nothing.
StartAttempt(run, signalAborted) ==
    IF signalAborted
    THEN Catch(Caused([run EXCEPT !.st = 0], "abort"), AbortError)
    ELSE [run EXCEPT !.pc = "fetch", !.st = 0, !.cause = "none", !.calls = @ + 1]

analyzeMessageKeyFirst(message, key, maxRetries, ctl, signalAborted, hook, hist0) ==
    LET run == [NoRun EXCEPT !.pc = "start", !.hook = hook, !.message = message,
                             !.hist0 = hist0, !.ctl = ctl,
                             !.maxRetries = maxRetries]
    IN  IF Trim(key) = <<>> THEN Throw(run, "INVALID_API_KEY")
        ELSE IF Trim(message) = <<>> THEN Throw(run, "INVALID_RESPONSE")
        ELSE IF 1 <= maxRetries
            THEN StartAttempt([run EXCEPT !.attempt = 1], signalAborted)
            ELSE Throw(run, "UNKNOWN")

analyzeMessageAtLeastOnce(message, key, maxRetries, ctl, signalAborted, hook, hist0) ==
    LET run == [NoRun EXCEPT !.pc = "start", !.hook = hook, !.message = message,
                             !.hist0 = hist0, !.ctl = ctl,
                             !.maxRetries = maxRetries]
    IN  IF Trim(message) = <<>> THEN Throw(run, "INVALID_RESPONSE")
        ELSE IF Trim(key) = <<>> THEN Throw(run, "INVALID_API_KEY")
        ELSE StartAttempt([run EXCEPT !.attempt = 1], signalAborted)

\* The call itself, up to its first await.
analyzeMessage(message, key, maxRetries, ctl, signalAborted, hook, hist0) ==
    LET run == [NoRun EXCEPT !.pc = "start", !.hook = hook, !.message = message,
                             !.hist0 = hist0, !.ctl = ctl,
                             !.maxRetries = maxRetries]
    IN  IF Trim(message) = <<>> THEN Throw(run, "INVALID_RESPONSE")
        ELSE IF Trim(key) = <<>> THEN Throw(run, "INVALID_API_KEY")
        ELSE IF 1 <= maxRetries
            THEN StartAttempt([run EXCEPT !.attempt = 1], signalAborted)
            ELSE Throw(run, "UNKNOWN")

\* fetch() resolved with a response of status st; clearTimeout(timeoutId).
OnResponse(run, st) == [run EXCEPT !.pc = "body", !.st = st]

\* fetch() rejected with a TypeError e.
OnNetworkFailure(run, e) == Catch(Caused(run, "network"), e)

\* response.text() settled: classify by status.
OnErrorBody(run) == Catch(Caused(run, "status"), ClassifyStatus(run.st))

\* response.json() settled with the body.
OnJsonBody(run, body) ==
    LET r0 == Caused(run, BodyCause(body))
        r1 == Succeeded(run)
    IN  IF body.kind = "notjson" THEN Catch(r0, JsonSyntaxError)
        ELSE IF body.kind = "null" THEN Catch(r0, PropertyTypeError)
        ELSE IF body.choices = "undefined" \/ body.choices = "empty"
                \/ body.message = "undefined"
            THEN Catch(r0, "INVALID_RESPONSE")
        ELSE LET parsed == parseAIResponse(body.content)
             IN  IF parsed.threw THEN Catch(r0, parsed.error)
                 ELSE IF validateAnalysisResponse(parsed.value) # "null"
                     THEN Catch(r0, "INVALID_RESPONSE")
                 ELSE Return(r1, parsed.value)

\* The composed signal aborts while the call is suspended.  fetch() and
\* response.json() reject with AbortError; response.text() rejects too, but
\* its .catch(() => '') swallows that.  sleep() does not listen.
OnAbort(run) ==
    IF run.pc = "fetch" THEN Catch(Caused(run, "abort"), AbortError)
    ELSE IF run.pc = "body" /\ Ok(run.st) THEN Catch(Caused(run, "abort"), AbortError)
    ELSE IF run.pc = "body" THEN OnErrorBody(run)
    ELSE run

\* The attempt's timer fires while fetch() is pending.
OnTimeout(run) == Catch(Caused(run, "timeout"), AbortError)

\* sleep(delay) resolved: attempt++ and the next iteration.
OnWake(run, signalAborted) ==
    StartAttempt([run EXCEPT !.attempt = @ + 1], signalAborted)

-----
(* The session: the state of useChat and the continuation of submitMessage *)

Session ==
    [status |-> status, currentMessage |-> currentMessage, result |-> result,
     error |-> error, history |-> history, applied |-> applied]

SetSession(S) ==
    /\ status' = S.status
    /\ currentMessage' = S.currentMessage
    /\ result' = S.result
    /\ error' = S.error
    /\ history' = S.history
    /\ applied' = S.applied

ErrorRecord(type) == [t |-> "error", type |-> type]

FirstN(seq, n) ==
    IF Len(seq) <= n THEN seq ELSE SubSeq(seq, 1, n)

\* newHistory.slice(-n)
LastN(seq, n) ==
    IF Len(seq) <= n THEN seq ELSE SubSeq(seq, Len(seq) - n + 1, Len(seq))

ErrorInfoUnmapped(e) == ErrorRecord(e)

\* The error record submitMessage's catch builds from what analyzeMessage threw.
ErrorInfo(e) == IF IsAIError(e) THEN ErrorRecord(e) ELSE ErrorRecord("UNKNOWN")

\* The history entry of a successful run; the run's id stands for the uuid.
HistoryEntry(r, run) ==
    [id |-> r, originalMessage |-> run.message, result |-> run.result]

SettledUnguarded(S, r, run, mounted, latest) ==
    LET seen == [S EXCEPT !.applied = @ \cup {[run |-> r, latest |-> latest]}]
    IN  IF run.outcome = "resolved"
        THEN [seen EXCEPT !.result = run.result,
                          !.status = CHAT_STATUS.COMPLETE,
                          !.history = LastN(Append(run.hist0, HistoryEntry(r, run)),
                                            HistoryCap)]
        ELSE [seen EXCEPT !.error = ErrorInfo(run.error),
                          !.status = CHAT_STATUS.ERROR]

SettledResultDropped(S, r, run, mounted, latest) ==
    LET seen == [S EXCEPT !.applied = @ \cup {[run |-> r, latest |-> latest]}]
    IN  IF ~mounted THEN S
        ELSE IF run.outcome = "resolved"
        THEN [seen EXCEPT !.status = CHAT_STATUS.COMPLETE,
                          !.history = LastN(Append(run.hist0, HistoryEntry(r, run)),
                                            HistoryCap)]
        ELSE [seen EXCEPT !.error = ErrorInfo(run.error),
                          !.status = CHAT_STATUS.ERROR]

\* submitMessage after `await analyzeMessage(...)` settled for run r, with
\* `latest` calls started so far.  safeSetState does nothing once unmounted.
\* setHistory is the setter captured when submitMessage was called: it
\* computes from the history of that render (run.hist0).
Settled(S, r, run, mounted, latest) ==
    LET seen == [S EXCEPT !.applied = @ \cup {[run |-> r, latest |-> latest]}]
    IN  IF ~mounted THEN S
        ELSE IF run.outcome = "resolved"
        THEN [seen EXCEPT !.result = run.result,
                          !.status = CHAT_STATUS.COMPLETE,
                          !.history = LastN(Append(run.hist0, HistoryEntry(r, run)),
                                            HistoryCap)]
        ELSE IF ~IsAIError(run.error) /\ run.error = AbortError
        THEN [seen EXCEPT !.status = CHAT_STATUS.IDLE]
        ELSE [seen EXCEPT !.error = ErrorInfo(run.error),
                          !.status = CHAT_STATUS.ERROR]

SignalAborted(run) == run.ctl # 0 /\ run.ctl \in aborted

\* Once submitMessage has consumed the settled promise of its call, nothing
\* of the call's locals is reachable any more: only the outcome is kept.
Released(run) ==
    IF run.pc = "done" /\ run.hook
    THEN [NoRun EXCEPT !.pc = "done", !.hook = TRUE, !.ctl = run.ctl,
                       !.outcome = run.outcome, !.error = run.error,
                       !.result = run.result]
    ELSE run

\* A suspended call r moves on to `next`; when that settles a call made by
\* submitMessage, its continuation runs in the same turn.
Progress(r, next) ==
    /\ runs' = [runs EXCEPT ![r] = Released(next)]
    /\ SetSession(IF next.pc = "done" /\ next.hook
                  THEN Settled(Session, r, next, isMounted, nruns)
                  ELSE Session)
    /\ UNCHANGED <<abortControllerRef, isMounted, apiKey, aborted, nruns, lastOp,
                 input, output, storeVars>>

-----------------------------------------------------------------------------
(* Events of the network and of the timers *)

Response(r) ==
    /\ runs[r].pc = "fetch"
    /\ \E st \in HttpStatuses : Progress(r, OnResponse(runs[r], st))

NetworkFailure(r) ==
    /\ runs[r].pc = "fetch"
    /\ \E e \in {FetchTypeError, LoadTypeError} : Progress(r, OnNetworkFailure(runs[r], e))

Body(r) ==
    /\ runs[r].pc = "body"
    /\ IF Ok(runs[r].st)
       THEN \E b \in Bodies : Progress(r, OnJsonBody(runs[r], b))
       ELSE Progress(r, OnErrorBody(runs[r]))

Timeout(r) ==
    /\ runs[r].pc = "fetch"
    /\ Progress(r, OnTimeout(runs[r]))

\* Time passes up to the next timer that is due, for every sleeping call.
Sleeping == {r \in RunIds : runs[r].pc = "sleep"}
NextDue == CHOOSE d \in {runs[r].remaining : r \in Sleeping} :
               \A r \in Sleeping : d <= runs[r].remaining

Tick ==
    /\ Sleeping # {}
    /\ \A r \in Sleeping : runs[r].remaining > 0
    /\ runs' = [r \in RunIds |->
                  IF r \in Sleeping
                  THEN [runs[r] EXCEPT !.remaining = @ - NextDue]
                  ELSE runs[r]]
    /\ UNCHANGED <<status, currentMessage, result, error, history,
                   abortControllerRef, isMounted, apiKey, aborted, nruns, input, output, storeVars,
                   lastOp, applied>>

Wake(r) ==
    /\ runs[r].pc = "sleep"
    /\ runs[r].remaining = 0
    /\ Progress(r, OnWake(runs[r], SignalAborted(runs[r])))

-----------------------------------------------------------------------------
(* Operations of useChat *)

\* abortControllerRef.current.abort(): what becomes of the call that listens
\* to controller c.  A controller that is already aborted fires nothing.
Fires(c) == c # 0 /\ c \notin aborted
AfterAbort(c) == IF Fires(c) THEN OnAbort(runs[c]) ELSE NoRun
Unwound(c) == Fires(c) /\ runs[c].pc # "done" /\ AfterAbort(c).pc = "done"
AbortSet(c) == IF c # 0 THEN aborted \cup {c} ELSE aborted

PreviousControllerKept ==
    IF status = CHAT_STATUS.SCANNING THEN 0 ELSE abortControllerRef

\* The controller submitMessage aborts before it creates a new one.
PreviousController == abortControllerRef

\* The accepted part of submitMessage: abort the previous controller, create
\* a new one, set the state, call analyzeMessage.  The microtasks queued by
\* this turn then run in order: the new call's rejection when it failed its
\* own input validation, then the rejection of the aborted call.
StartRequest(m) ==
    LET c == PreviousController
        id == nruns + 1
        new == analyzeMessage(Trim(m), apiKey, DefaultMaxRetries, id, FALSE,
                              TRUE, history)
        S1 == [Session EXCEPT !.currentMessage = Trim(m),
                              !.status = CHAT_STATUS.SCANNING,
                              !.error = Null,
                              !.result = Null]
        S2 == IF new.pc = "done" THEN Settled(S1, id, new, isMounted, id) ELSE S1
        S3 == IF Unwound(c) THEN Settled(S2, c, AfterAbort(c), isMounted, id) ELSE S2
    IN  /\ nruns < MaxRuns
        /\ aborted' = AbortSet(c)
        /\ abortControllerRef' = id
        /\ nruns' = id
        /\ UNCHANGED <<input, output, storeVars>>
        /\ runs' = [r \in RunIds |->
                      IF r = id THEN Released(new)
                      ELSE IF Fires(c) /\ r = c THEN Released(AfterAbort(c))
                      ELSE runs[r]]
        /\ SetSession(S3)
        /\ UNCHANGED <<isMounted, apiKey>>

submitMessage(m) ==
    IF Trim(m) = <<>>
    THEN /\ error' = ErrorRecord("VALIDATION")
         /\ UNCHANGED <<status, currentMessage, result, history,
                        abortControllerRef, isMounted, apiKey, aborted, runs,
                        nruns, input, output, storeVars, applied>>
    ELSE IF ~(Len(apiKey) > 0)
    THEN /\ error' = ErrorRecord("NO_API_KEY")
         /\ UNCHANGED <<status, currentMessage, result, history,
                        abortControllerRef, isMounted, apiKey, aborted, runs,
                        nruns, input, output, storeVars, applied>>
    ELSE StartRequest(m)

Submit ==
    /\ isMounted
    /\ \E m \in Texts : submitMessage(m)
    /\ lastOp' = "submit"

\* cancelRequest with the state it leaves, S1 being the state its own
\* setters (and those of a caller) produce.
AbortAndSet(S1) ==
    LET c == abortControllerRef
    IN  /\ aborted' = AbortSet(c)
        /\ abortControllerRef' = 0
        /\ runs' = [r \in RunIds |->
                      IF Fires(c) /\ r = c THEN Released(AfterAbort(c)) ELSE runs[r]]
        /\ SetSession(IF Unwound(c)
                      THEN Settled(S1, c, AfterAbort(c), isMounted, nruns)
                      ELSE S1)
        /\ UNCHANGED <<isMounted, apiKey, nruns, input, output, storeVars>>

cancelRequest ==
    AbortAndSet([Session EXCEPT !.status = CHAT_STATUS.IDLE, !.error = Null])

Cancel ==
    /\ isMounted
    /\ cancelRequest
    /\ lastOp' = "cancel"

Reset ==
    /\ isMounted
    /\ AbortAndSet([Session EXCEPT !.currentMessage = <<>>,
                                   !.result = Null,
                                   !.error = Null,
                                   !.status = CHAT_STATUS.IDLE])
    /\ lastOp' = "reset"

RetryUnguarded ==
    /\ isMounted
    /\ submitMessage(currentMessage) /\ lastOp' = "submit"

\* retry: if (currentMessage) submitMessage(currentMessage)
Retry ==
    /\ isMounted
    /\ IF currentMessage # <<>>
       THEN submitMessage(currentMessage) /\ lastOp' = "submit"
       ELSE UNCHANGED vars

\* clearHistory: setHistory([]).  Like every operation it is called from the
\* mounted UI; a state setter of an unmounted component does nothing.
ClearHistory ==
    /\ isMounted
    /\ history # <<>>
    /\ history' = <<>>
    /\ UNCHANGED <<status, currentMessage, result, error, abortControllerRef,
                   isMounted, apiKey, aborted, runs, nruns, lastOp, applied,
                   input, output, storeVars>>

\* (prev || []).filter((h) => h.id !== historyId)
Without(seq, id) ==
    LET Keep(h) == h.id # id IN SelectSeq(seq, Keep)

\* removeFromHistory(historyId), called from the current render.
RemoveFromHistory ==
    /\ isMounted
    /\ \E id \in RemoveIds :
          /\ history' = Without(history, id)
          /\ history' # history
    /\ UNCHANGED <<status, currentMessage, result, error, abortControllerRef,
                   isMounted, apiKey, aborted, runs, nruns, lastOp, applied,
                   input, output, storeVars>>

\* The ids the user asks loadFromHistory to load: the newest stored entry and
\* the entry of the first request.
LoadIds == {-1, 1}

\* The first entry whatever its id; not what loadFromHistory looks up.
FindFirst(seq, id) == IF seq # <<>> THEN seq[1] ELSE Undefined

\* history.find((h) => h.id === historyId), undefined when there is none.
Find(seq, id) ==
    IF \E i \in 1..Len(seq) : seq[i].id = id
    THEN seq[CHOOSE i \in 1..Len(seq) :
                 seq[i].id = id /\ \A j \in 1..(i - 1) : seq[j].id # id]
    ELSE Undefined

\* loadFromHistory(historyId), called from the current render.
loadFromHistory(historyId) ==
    /\ LET entry == Find(history, historyId)
       IN  IF entry # Undefined
           THEN SetSession([Session EXCEPT
                              !.currentMessage = entry.originalMessage,
                              !.result = entry.result,
                              !.status = CHAT_STATUS.COMPLETE,
                              !.error = Null])
           ELSE UNCHANGED <<status, currentMessage, result, error, history,
                            applied>>
    /\ UNCHANGED <<abortControllerRef, isMounted, apiKey, aborted, runs, nruns,
                   lastOp, input, output, storeVars>>

LoadFromHistory == isMounted /\ \E id \in LoadIds : loadFromHistory(id)

\* The effect cleanup of useChat.
Unmount ==
    LET c == abortControllerRef
    IN  /\ isMounted
        /\ isMounted' = FALSE
        /\ aborted' = AbortSet(c)
        /\ runs' = [r \in RunIds |->
                      IF Fires(c) /\ r = c THEN Released(AfterAbort(c)) ELSE runs[r]]
        /\ lastOp' = "unmount"
        /\ UNCHANGED <<status, currentMessage, result, error, history,
                       abortControllerRef, apiKey, nruns, applied,
                       input, output, storeVars>>

\* A direct caller of analyzeMessage aborts the signal it passed.
CallerAbort(r) ==
    /\ runs[r].pc # "none"
    /\ ~runs[r].hook
    /\ Fires(runs[r].ctl)
    /\ aborted' = aborted \cup {runs[r].ctl}
    /\ runs' = [runs EXCEPT ![r] = OnAbort(runs[r])]
    /\ UNCHANGED <<status, currentMessage, result, error, history,
                   abortControllerRef, isMounted, apiKey, nruns, lastOp, applied,
                   input, output, storeVars>>

-----------------------------------------------------------------------------
(* Direct calls of the pure functions of utils/ai.js *)

Pending == [t |-> "pending"]

\* Everything but the result of the call.
hookVars == <<status, currentMessage, result, error, history,
              abortControllerRef, isMounted, apiKey, aborted, runs, nruns,
              lastOp, applied>>

\* Object texts a model writes, and the prose it puts before and after them;
\* prose may use braces of its own.
ObjectTexts ==
    {<<"{", "G", "}">>, <<"{", "V", "}">>, <<"{", " ", "W", " ", "}">>,
     <<"{", "}">>, <<"{", "G", "{", "}", "}">>}
ProseBefore == {<<>>, <<"w", " ">>, <<"w", " ", "{", "w", "}", " ">>}
ProseAfter == {<<>>, <<" ", "w">>, <<" ", "{", "w", "}">>}

\* A content string that carries the object text obj: as the whole string, in
\* a fenced block with or without the tag, or inside prose.
Carried(wrap, pre, obj, post) ==
    [fn |-> "parseAIResponse", wrap |-> wrap, embedded |-> Squeeze(obj),
     content |-> Str(IF wrap = "raw" THEN obj
                     ELSE IF wrap = "fenced"
                         THEN pre \o <<"F", " ">> \o obj \o <<" ", "F">> \o post
                     ELSE IF wrap = "tagged"
                         THEN pre \o <<"F", "j", " ">> \o obj \o <<"F">> \o post
                     ELSE pre \o obj \o post)]

\* A content string that carries no object.
Bare(text) ==
    [fn |-> "parseAIResponse", wrap |-> "none", embedded |-> <<>>,
     content |-> Str(text)]

ParseInputs ==
    {Carried("raw", <<>>, obj, <<>>) : obj \in ObjectTexts}
    \cup {Carried(wrap, pre, obj, post) :
            wrap \in {"fenced", "tagged", "prose"}, pre \in ProseBefore,
            obj \in ObjectTexts, post \in ProseAfter}
    \cup {Bare(<<"w">>), Bare(<<"{", "w">>), Bare(<<"F", "w", "F">>),
          Bare(<<"w", " ", "}", " ", "{">>)}

\* The values a candidate can be: not an object at all, an array, or an
\* object whose fields have these types (an array and a rewrites that is not
\* an object have no fields of their own).
Value(t) ==
    [t |-> t, verdict |-> "undefined", risks |-> "undefined",
     rewrites |-> "undefined", short |-> "undefined", warm |-> "undefined",
     confident |-> "undefined"]
Validated(data) == [fn |-> "validateAnalysisResponse", data |-> data]

ValidateInputs ==
    {Validated(Value(t)) :
        t \in {"null", "undefined", "string", "number", "boolean", "array"}}
    \cup {Validated(Candidate(v, r, w, "undefined", "undefined", "undefined")) :
            v \in {"good_to_send", "needs_edit", "high_risk", "maybe", "undefined"},
            r \in {"array", "object", "undefined"},
            w \in {"null", "undefined", "string", "array"}}
    \cup {Validated(Candidate(v, r, "object", s, w, c)) :
            v \in {"good_to_send", "needs_edit", "high_risk", "maybe", "undefined"},
            r \in {"array", "object", "undefined"},
            s \in {"string", "undefined", "number"},
            w \in {"string", "undefined", "number"},
            c \in {"string", "undefined", "number"}}

\* validateAnalysisResponse(data)
ValidateAnalysisResponse ==
    /\ input # Null /\ input.fn = "validateAnalysisResponse" /\ output = Pending
    /\ output' = Returned(validateAnalysisResponse(input.data))
    /\ UNCHANGED <<hookVars, storeVars, input>>

\* anySignal(signals): signals[i] tells whether source i is aborted.  The
\* result is the new controller's signal, with the sources it listens to.
ComposeUnchecked(signals, i, listeners) ==
    [t |-> "signal", aborted |-> FALSE, listeners |-> 1..Len(signals),
     sources |-> signals]

\* The loop of anySignal from source i on.
RECURSIVE Compose(_, _, _)
Compose(signals, i, listeners) ==
    IF i > Len(signals)
    THEN [t |-> "signal", aborted |-> FALSE, listeners |-> listeners,
          sources |-> signals]
    ELSE IF signals[i]
    THEN [t |-> "signal", aborted |-> TRUE, listeners |-> listeners,
          sources |-> signals]
    ELSE Compose(signals, i + 1, listeners \cup {i})

anySignal(signals) == Compose(signals, 1, {})

\* Source i aborts: its 'abort' event runs the listener, if one was added.
Dispatch(composed, i) ==
    [composed EXCEPT !.sources[i] = TRUE,
                     !.aborted = @ \/ i \in composed.listeners]

\* The sources at composition: the caller's signal and the timeout signal of
\* the attempt, or three sources.
SignalInputs ==
    {[fn |-> "anySignal", signals |-> s] :
        s \in [1..2 -> BOOLEAN] \cup [1..3 -> BOOLEAN]}

AnySignal ==
    /\ input # Null /\ input.fn = "anySignal" /\ output = Pending
    /\ output' = anySignal(input.signals)
    /\ UNCHANGED <<hookVars, storeVars, input>>

\* A source that has not fired yet fires.
SourceAborts ==
    /\ input # Null /\ input.fn = "anySignal" /\ output # Pending
    /\ \E i \in DOMAIN output.sources :
          /\ ~output.sources[i]
          /\ output' = Dispatch(output, i)
    /\ UNCHANGED <<hookVars, storeVars, input>>

\* The attempt numbers after which a delay can be computed.
BackoffInputs ==
    {[fn |-> "backoff", attempt |-> a] : a \in 1..(MaxRetriesBound + 2)}

\* const delay = Math.min(1000 * Math.pow(2, attempt - 1), 10000)
BackoffDelay ==
    /\ input # Null /\ input.fn = "backoff" /\ output = Pending
    /\ output' = Returned(Backoff(input.attempt))
    /\ UNCHANGED <<hookVars, storeVars, input>>

\* parseAIResponse(content)
ParseAIResponse ==
    /\ input # Null /\ input.fn = "parseAIResponse" /\ output = Pending
    /\ output' = parseAIResponse(input.content)
    /\ UNCHANGED <<hookVars, storeVars, input>>

-----------------------------------------------------------------------------
(* utils/storage.js: the wrappers of localStorage *)

STORAGE_PREFIX == "messageclearance_"

\* A key is a string of tokens; the prefix is one token, and "messageclearance"
\* is the prefix without its underscore.
STORAGE_KEYS ==
    [API_KEY |-> <<STORAGE_PREFIX, "api_key">>,
     CHAT_HISTORY |-> <<STORAGE_PREFIX, "chat_history">>]

TestKey == <<STORAGE_PREFIX, "__test__">>

\* The keys of localStorage: two of the application, the key of the
\* availability test, and three of other applications.
StorageKeys ==
    {STORAGE_KEYS.API_KEY, STORAGE_KEYS.CHAT_HISTORY, TestKey,
     <<"messageclearance">>, <<"theme">>, <<"app_", STORAGE_PREFIX>>}

STORAGE_DEFAULTS(key) ==
    IF key = STORAGE_KEYS.API_KEY THEN Str(<<>>)
    ELSE IF key = STORAGE_KEYS.CHAT_HISTORY
        THEN [t |-> "array", items |-> <<>>]
    ELSE Undefined

\* a ?? b
Coalesce(a, b) == IF a \in {Null, Undefined} THEN b ELSE a

\* key.includes(prefix); not what clearAll tests
includes(key, prefix) == \E i \in 1..Len(key) : key[i] = prefix

\* key.startsWith(prefix)
startsWith(key, prefix) == Len(key) >= 1 /\ key[1] = prefix

\* localStorage maps each key to its item, a string, or to null. A storage
\* that is available: the test writes the test key, reads it and removes it.
isStorageAvailable(ls) ==
    [ok |-> TRUE, ls |-> [ls EXCEPT ![TestKey] = Null]]

\* getItem(key, defaultValue): the item parsed as JSON, or as it is when it
\* does not parse.
getItem(ls, key, defaultValue) ==
    LET avail == isStorageAvailable(ls)
        item == avail.ls[key]
    IN  [ls |-> avail.ls,
         value |->
            IF item = Null
            THEN Coalesce(Coalesce(defaultValue, STORAGE_DEFAULTS(key)), Null)
            ELSE LET parsed == JsonParse(item.text)
                 IN  IF parsed.threw THEN item ELSE parsed.value]

\* setItem(key, value): a string is stored as it is, any other value as its
\* JSON text; the texts here are far below the limit of 1 MB.
setItem(ls, key, value) ==
    LET avail == isStorageAvailable(ls)
        serialized ==
            IF value.t = "string" THEN value.text ELSE JsonStringify(value)
    IN  [ok |-> TRUE, ls |-> [avail.ls EXCEPT ![key] = Str(serialized)]]

\* clearAll(): the keys that start with the prefix are collected, then
\* removed.
clearAll(ls) ==
    LET avail == isStorageAvailable(ls)
        keysToRemove ==
            {key \in StorageKeys :
                avail.ls[key] # Null /\ startsWith(key, STORAGE_PREFIX)}
    IN  [ok |-> TRUE,
         ls |-> [key \in StorageKeys |->
                    IF key \in keysToRemove THEN Null ELSE avail.ls[key]]]

EmptyStorage == [key \in StorageKeys |-> Null]

\* The values stored: strings (plain ones, and ones whose text is JSON),
\* numbers, true, null, arrays and an object.
StorableValues ==
    {Str(text) : text \in {<<>>, <<"a">>, <<"a", "1">>, <<"1", "2">>,
                           <<"true">>, <<"null">>, <<"quoted_a">>,
                           <<"[", "1", "]">>, <<"{o}">>}}
    \cup {[t |-> "number", digits |-> d] : d \in {<<"1">>, <<"1", "2">>}}
    \cup {[t |-> "boolean", value |-> TRUE], Null, [t |-> "object"]}
    \cup {[t |-> "array", items |-> items] :
            items \in {<<>>, <<[t |-> "number", digits |-> <<"1">>]>>,
                       <<Str(<<"a">>), [t |-> "object"]>>}}

RoundTripInputs ==
    [fn : {"roundTrip"}, key : StorageKeys, value : StorableValues]

ClearInputs ==
    [fn : {"clearAll"}, ls : [StorageKeys -> {Null, Str(<<"a">>)}]]

\* setItem(key, value) on an empty storage
SetItem ==
    /\ input # Null /\ input.fn = "roundTrip" /\ output = Pending
    /\ LET set == setItem(EmptyStorage, input.key, input.value)
       IN  output' = [t |-> "set", ok |-> set.ok, ls |-> set.ls]
    /\ UNCHANGED <<hookVars, storeVars, input>>

\* getItem(key) after it
GetItem ==
    /\ input # Null /\ input.fn = "roundTrip" /\ output # Pending
    /\ output.t = "set"
    /\ LET got == getItem(output.ls, input.key, Null)
       IN  output' = [t |-> "got", ok |-> output.ok, ls |-> got.ls,
                      value |-> got.value]
    /\ UNCHANGED <<hookVars, storeVars, input>>

\* clearAll()
ClearAll ==
    /\ input # Null /\ input.fn = "clearAll" /\ output = Pending
    /\ output' = Returned(clearAll(input.ls))
    /\ UNCHANGED <<hookVars, storeVars, input>>

-----------------------------------------------------------------------------
(* useLocalStorage: the debounced persistence of storedValue *)

\* The values of the state; equal values are the same value to React.
StoreValues == {"v0", "v1", "v2"}
Absent == "absent"

\* No hook over the storage is part of the behaviour.
StoreUnused ==
    /\ storedValue = Null
    /\ storage = Null
    /\ timers = {}
    /\ debounceTimerRef = 0
    /\ nchanges = 0
    /\ lastWrite = 0

\* The timer the effect sets in the render of change number id.
NewTimer(id, value) == [id |-> id, value |-> value, remaining |-> DebounceMs]

\* clearTimeout(debounceTimerRef.current)
NotCleared(ts, ref) == ts
Cleared(ts, ref) == {t \in ts : t.id # ref}

\* The render after storedValue changed to v: the cleanup of the previous
\* effect and the effect itself clear the timer of the ref, then the effect
\* sets a new one.
Rerender(v) ==
    /\ nchanges < MaxChanges
    /\ storedValue' = v
    /\ nchanges' = nchanges + 1
    /\ timers' = Cleared(timers, debounceTimerRef) \cup {NewTimer(nchanges', v)}
    /\ debounceTimerRef' = nchanges'

\* setValue(value): a value equal to the state leaves the state as it is.
SetValue ==
    /\ isMounted
    /\ \E v \in StoreValues :
          IF v = storedValue
          THEN UNCHANGED <<storedValue, nchanges, timers, debounceTimerRef>>
          ELSE Rerender(v)
    /\ UNCHANGED <<storage, lastWrite, hookVars, input, output>>

\* Another tab writes the key: the 'storage' event sets the state.
StorageEvent ==
    /\ isMounted
    /\ \E w \in StoreValues :
          /\ w # storage
          /\ storage' = w
          /\ IF w = storedValue
             THEN UNCHANGED <<storedValue, nchanges, timers, debounceTimerRef>>
             ELSE Rerender(w)
    /\ UNCHANGED <<lastWrite, hookVars, input, output>>

\* Time passes, up to the moment the next timer is due.
Elapse ==
    /\ timers # {}
    /\ \A t \in timers : t.remaining > 0
    /\ \E d \in {DebounceMs \div 3, DebounceMs} :
          /\ \A t \in timers : d <= t.remaining
          /\ timers' = {[t EXCEPT !.remaining = @ - d] : t \in timers}
    /\ UNCHANGED <<storedValue, storage, debounceTimerRef, nchanges, lastWrite,
                   hookVars, input, output>>

\* A timer fires: setItem(key, storedValue), with the value of its render.
DebounceFires ==
    /\ \E t \in timers :
          /\ t.remaining = 0
          /\ storage' = t.value
          /\ lastWrite' = t.id
          /\ timers' = timers \ {t}
    /\ UNCHANGED <<storedValue, debounceTimerRef, nchanges, hookVars, input,
                   output>>

\* The component unmounts: the effect's cleanup clears the timer of the ref.
UnmountStore ==
    /\ isMounted
    /\ isMounted' = FALSE
    /\ timers' = Cleared(timers, debounceTimerRef)
    /\ UNCHANGED <<storedValue, storage, debounceTimerRef, nchanges, lastWrite,
                   status, currentMessage, result, error, history,
                   abortControllerRef, apiKey, aborted, runs, nruns, lastOp,
                   applied, input, output>>

-----------------------------------------------------------------------------
(* Specifications *)

\* The mounted hook, before any submission.
Init ==
    /\ status = CHAT_STATUS.IDLE
    /\ currentMessage = <<>>
    /\ result = Null
    /\ error = Null
    /\ history = <<>>
    /\ abortControllerRef = 0
    /\ isMounted = TRUE
    /\ apiKey \in ApiKeys
    /\ aborted = {}
    /\ runs = [r \in RunIds |-> NoRun]
    /\ nruns = 0
    /\ lastOp = "none"
    /\ applied = {}
    /\ input = Null
    /\ output = Null
    /\ StoreUnused

Next ==
    \/ Submit
    \/ Cancel
    \/ Reset
    \/ Retry
    \/ Unmount
    \/ \E r \in RunIds : Response(r)
    \/ \E r \in RunIds : NetworkFailure(r)
    \/ \E r \in RunIds : Body(r)
    \/ \E r \in RunIds : Timeout(r)
    \/ \E r \in RunIds : Wake(r)
    \/ Tick

Spec == Init /\ [][Next]_vars

\* One direct call analyzeMessage(message, apiKey, {maxRetries, signal}),
\* with or without a signal, which may be aborted already.
InitAnalyze ==
    /\ status = CHAT_STATUS.IDLE
    /\ currentMessage = <<>>
    /\ result = Null
    /\ error = Null
    /\ history = <<>>
    /\ abortControllerRef = 0
    /\ isMounted = FALSE
    /\ apiKey \in ApiKeys
    /\ nruns = 1
    /\ lastOp = "none"
    /\ applied = {}
    /\ input = Null
    /\ output = Null
    /\ StoreUnused
    /\ \E m \in Texts, n \in 0..MaxRetriesBound, ctl \in {0, 1}, pre \in BOOLEAN :
          /\ aborted = IF pre /\ ctl = 1 THEN {1} ELSE {}
          /\ runs = [r \in RunIds |->
                       IF r = 1
                       THEN analyzeMessage(m, apiKey, n, ctl, pre /\ ctl = 1,
                                           FALSE, <<>>)
                       ELSE NoRun]

NextAnalyze ==
    \/ \E r \in RunIds : Response(r)
    \/ \E r \in RunIds : NetworkFailure(r)
    \/ \E r \in RunIds : Body(r)
    \/ \E r \in RunIds : Timeout(r)
    \/ \E r \in RunIds : Wake(r)
    \/ \E r \in RunIds : CallerAbort(r)
    \/ Tick

SpecAnalyze == InitAnalyze /\ [][NextAnalyze]_vars

\* The hook mounted over a stored history, with the operations on the history.
InitHistory ==
    /\ status = CHAT_STATUS.IDLE
    /\ currentMessage = <<>>
    /\ result = Null
    /\ error = Null
    /\ history \in StoredHistories
    /\ abortControllerRef = 0
    /\ isMounted = TRUE
    /\ apiKey \in ApiKeys
    /\ aborted = {}
    /\ runs = [r \in RunIds |-> NoRun]
    /\ nruns = 0
    /\ lastOp = "none"
    /\ applied = {}
    /\ input = Null
    /\ output = Null
    /\ StoreUnused

NextHistory ==
    \/ Submit
    \/ Cancel
    \/ Reset
    \/ Retry
    \/ Unmount
    \/ ClearHistory
    \/ RemoveFromHistory
    \/ LoadFromHistory
    \/ \E r \in RunIds : Response(r)
    \/ \E r \in RunIds : NetworkFailure(r)
    \/ \E r \in RunIds : Body(r)
    \/ \E r \in RunIds : Timeout(r)
    \/ \E r \in RunIds : Wake(r)
    \/ Tick

SpecHistory == InitHistory /\ [][NextHistory]_vars

\* The session when every pending fetch is answered, fails or is aborted by
\* its timeout, every body read completes and every timer fires.
Answered(r) == Response(r) \/ NetworkFailure(r) \/ Timeout(r)

FairSpec ==
    /\ Init /\ [][Next]_vars
    /\ \A r \in RunIds :
          WF_vars(Answered(r)) /\ WF_vars(Body(r)) /\ WF_vars(Wake(r))
    /\ WF_vars(Tick)

\* useLocalStorage mounted over a storage that is empty or holds a value, the
\* first render and its effects done.
InitialValue == "v0"

InitStore ==
    /\ status = CHAT_STATUS.IDLE
    /\ currentMessage = <<>>
    /\ result = Null
    /\ error = Null
    /\ history = <<>>
    /\ abortControllerRef = 0
    /\ isMounted = TRUE
    /\ apiKey = <<>>
    /\ aborted = {}
    /\ runs = [r \in RunIds |-> NoRun]
    /\ nruns = 0
    /\ lastOp = "none"
    /\ applied = {}
    /\ input = Null
    /\ output = Null
    /\ storage \in StoreValues \cup {Absent}
    /\ storedValue = IF storage = Absent THEN InitialValue ELSE storage
    /\ timers = {}
    /\ debounceTimerRef = 0
    /\ nchanges = 0
    /\ lastWrite = 0

NextStore ==
    \/ SetValue
    \/ StorageEvent
    \/ Elapse
    \/ DebounceFires
    \/ UnmountStore

SpecStore == InitStore /\ [][NextStore]_vars

\* One direct call of a pure function, on each of its inputs.
FunctionInputs ==
    ParseInputs \cup ValidateInputs \cup SignalInputs \cup BackoffInputs
        \cup RoundTripInputs \cup ClearInputs

InitFunctions ==
    /\ status = CHAT_STATUS.IDLE
    /\ currentMessage = <<>>
    /\ result = Null
    /\ error = Null
    /\ history = <<>>
    /\ abortControllerRef = 0
    /\ isMounted = FALSE
    /\ apiKey = <<>>
    /\ aborted = {}
    /\ runs = [r \in RunIds |-> NoRun]
    /\ nruns = 0
    /\ lastOp = "none"
    /\ applied = {}
    /\ input \in FunctionInputs
    /\ output = Pending
    /\ StoreUnused

NextFunctions ==
    \/ ParseAIResponse
    \/ ValidateAnalysisResponse
    \/ AnySignal
    \/ SourceAborts
    \/ BackoffDelay
    \/ SetItem
    \/ GetItem
    \/ ClearAll

SpecFunctions == InitFunctions /\ [][NextFunctions]_vars

-----------------------------------------------------------------------------
(* Properties of the session (checked under Spec) *)

InFlight == {r \in RunIds : runs[r].pc \in {"fetch", "body"}}

\* C1: once a newer submit has started, no outcome of a superseded request
\* is applied to the session state: every outcome that reached the state
\* came from the request that was the latest one at that moment.
C1_SupersededNeverApplied ==
    \A a \in applied : a.run = a.latest

\* C2: after cancel() the session is Idle with no error, and stays so until
\* the next operation of the caller: the cancelled request never turns the
\* status into Failed or sets an error record.
C2_CancelIsSilent ==
    lastOp = "cancel" => status = CHAT_STATUS.IDLE /\ error = Null

\* C3: at most one request of the session is on the network at any time, and
\* it is the one of the current cancellation handle, whose signal is not
\* aborted.
C3_AtMostOneLiveRequest ==
    /\ Cardinality(InFlight) <= 1
    /\ \A r \in InFlight : r = abortControllerRef /\ r \notin aborted

\* C3 witness: the second request is on the network after the first one,
\* which was still pending, was aborted by the second submit.
C3_Witness ==
    /\ nruns = 2
    /\ runs[2].pc = "fetch"
    /\ 1 \in aborted
    /\ runs[1].pc \in {"done", "sleep"}

-----------------------------------------------------------------------------
(* Properties of analyzeMessage (checked under SpecAnalyze) *)

\* C4: an attempt answered by HTTP 401 or 403 ends the call at once with
\* INVALID_API_KEY: no further network call and no backoff delay follow, so a
\* provider answering 401/403 to the first call is called exactly once.
C4_UnauthorizedNeverRetried ==
    \A r \in RunIds :
        runs[r].cause = "status" /\ runs[r].st \in {401, 403}
        => /\ runs[r].pc = "done"
           /\ runs[r].outcome = "rejected"
           /\ runs[r].error = "INVALID_API_KEY"
           /\ runs[r].calls = runs[r].attempt
           /\ Len(runs[r].delays) = runs[r].attempt - 1
           /\ (runs[r].attempt = 1 => runs[r].calls = 1 /\ runs[r].delays = <<>>)

C4_Witness ==
    \E r \in RunIds :
        /\ runs[r].cause = "status" /\ runs[r].st = 403
        /\ runs[r].maxRetries >= 3
        /\ runs[r].pc = "done" /\ runs[r].calls = 1

\* C5: a call (maxRetries >= 1) whose every attempt failed by a retryable
\* answer of the provider makes exactly maxRetries network calls and then
\* fails with the error of the last attempt.
C5_RetriesExhausted ==
    \A r \in RunIds :
        /\ runs[r].pc = "done" /\ runs[r].outcome = "rejected"
        /\ runs[r].attempt >= 1 /\ runs[r].clean
        => /\ runs[r].calls = runs[r].maxRetries
           /\ Len(runs[r].delays) = runs[r].maxRetries - 1
           /\ runs[r].cause = "status" /\ runs[r].st = 429
                => runs[r].error = "RATE_LIMITED"
           /\ runs[r].cause = "status" /\ runs[r].st >= 500
                => runs[r].error = "SERVER_ERROR"
           /\ runs[r].cause = "status" /\ runs[r].st < 500 /\ runs[r].st # 429
                => runs[r].error = "UNKNOWN"
           /\ runs[r].cause = "network"
                => runs[r].error \in {"NETWORK_ERROR", LoadTypeError}

C5_Witness ==
    \E r \in RunIds :
        /\ runs[r].pc = "done" /\ runs[r].clean
        /\ runs[r].maxRetries = 3 /\ runs[r].calls = 3
        /\ runs[r].st = 500 /\ runs[r].error = "SERVER_ERROR"

\* The delays min(1000 * 2^(i-1), 10000) of attempts i = 1, 2, ...
ExpectedDelays == <<1000, 2000, 4000, 8000, 10000, 10000, 10000, 10000>>

\* C6: a call that succeeds after k attempts failed by retryable answers of
\* the provider (k < maxRetries) made exactly k + 1 network calls and waited
\* min(1000 * 2^(i-1), 10000) ms after failed attempt i.
C6_SucceedsAfterRetries ==
    \A r \in RunIds :
        runs[r].pc = "done" /\ runs[r].outcome = "resolved" /\ runs[r].clean
        => /\ runs[r].attempt <= runs[r].maxRetries
           /\ runs[r].calls = runs[r].attempt
           /\ runs[r].delays = SubSeq(ExpectedDelays, 1, runs[r].attempt - 1)

C6_Witness ==
    \E r \in RunIds :
        /\ runs[r].pc = "done" /\ runs[r].outcome = "resolved" /\ runs[r].clean
        /\ runs[r].maxRetries = 3 /\ runs[r].calls = 3
        /\ runs[r].delays = <<1000, 2000>>

\* C7: the backoff delay is cancellable: no call is still suspended in its
\* backoff delay once its cancellation signal has fired.
C7_BackoffIsCancellable ==
    \A r \in RunIds : runs[r].pc = "sleep" => ~SignalAborted(runs[r])

\* C8: an attempt ended by its timeout is retried while attempts remain.
C8_TimeoutIsRetried ==
    \A r \in RunIds :
        runs[r].cause = "timeout" /\ runs[r].attempt < runs[r].maxRetries
        => runs[r].pc = "sleep" /\ runs[r].lastError = "TIMEOUT"

\* C9: whatever analyzeMessage fails with is an AIError of one of the seven
\* kinds, never a raw exception.
C9_FailsWithPipelineError ==
    \A r \in RunIds :
        runs[r].pc = "done" /\ runs[r].outcome = "rejected"
        => IsAIError(runs[r].error)

\* C10: a 2xx response without choices[0].message.content ends the call at
\* once with INVALID_RESPONSE; it is not retried.
C10_AbsentContentIsInvalidResponse ==
    \A r \in RunIds :
        runs[r].cause \in {"nochoices", "nomessage", "nocontent"}
        => /\ runs[r].pc = "done"
           /\ runs[r].outcome = "rejected"
           /\ runs[r].error = "INVALID_RESPONSE"

-----------------------------------------------------------------------------
(* Properties of the results and of the session's operations *)

\* What a well-formed analysis is: the verdict is one of the three, risks is
\* an array, rewrites holds short, warm and confident as strings.
WellFormed(p) ==
    /\ p.t = "object"
    /\ p.verdict \in {"good_to_send", "needs_edit", "high_risk"}
    /\ p.risks = "array"
    /\ p.rewrites = "object"
    /\ p.short = "string" /\ p.warm = "string" /\ p.confident = "string"

\* C11: every result analyzeMessage returns, and so every result the session
\* stores or appends to its history, is a well-formed analysis.
C11_ResultsAreWellFormed ==
    /\ \A r \in RunIds :
          runs[r].outcome = "resolved" => WellFormed(runs[r].result.parsed)
    /\ result # Null => WellFormed(result.parsed)
    /\ \A i \in 1..Len(history) : WellFormed(history[i].result.parsed)

C11_Witness ==
    /\ \E r \in RunIds : runs[r].outcome = "resolved"
    /\ result # Null
    /\ history # <<>>

\* C12: analyzeMessage rejects a blank message with INVALID_RESPONSE and, the
\* message being non-blank, a blank API key with INVALID_API_KEY; in both cases
\* it made no network call and started no delay.
C12_BlankInputsRejectedLocally ==
    \A r \in RunIds :
        runs[r].pc # "none" /\ ~runs[r].hook
        => /\ Trim(runs[r].message) = <<>>
                => /\ runs[r].pc = "done" /\ runs[r].outcome = "rejected"
                   /\ runs[r].error = "INVALID_RESPONSE"
                   /\ runs[r].calls = 0 /\ runs[r].delays = <<>>
           /\ Trim(runs[r].message) # <<>> /\ Trim(apiKey) = <<>>
                => /\ runs[r].pc = "done" /\ runs[r].outcome = "rejected"
                   /\ runs[r].error = "INVALID_API_KEY"
                   /\ runs[r].calls = 0 /\ runs[r].delays = <<>>

\* C12 witness: both inputs blank and retries allowed; the message check won.
C12_Witness ==
    \E r \in RunIds :
        /\ ~runs[r].hook /\ runs[r].maxRetries >= 1
        /\ runs[r].message = <<" ">> /\ apiKey = <<" ">>
        /\ runs[r].error = "INVALID_RESPONSE" /\ runs[r].calls = 0

\* C13: an attempt answered by a non-2xx status fails with the kind its status
\* alone gives (401, 403: INVALID_API_KEY; 429: RATE_LIMITED; >= 500:
\* SERVER_ERROR; else UNKNOWN), and only INVALID_API_KEY ends the call while
\* attempts remain: the other kinds are followed by a backoff delay.
C13_StatusClassification ==
    \A r \in RunIds :
        runs[r].cause = "status" /\ ~Ok(runs[r].st)
        => /\ runs[r].st \in {401, 403} => runs[r].lastError = "INVALID_API_KEY"
           /\ runs[r].st = 429 => runs[r].lastError = "RATE_LIMITED"
           /\ runs[r].st >= 500 => runs[r].lastError = "SERVER_ERROR"
           /\ runs[r].st \notin {401, 403, 429} /\ runs[r].st < 500
                => runs[r].lastError = "UNKNOWN"
           /\ runs[r].lastError = "INVALID_API_KEY"
                => runs[r].pc = "done" /\ runs[r].error = "INVALID_API_KEY"
           /\ runs[r].lastError # "INVALID_API_KEY"
                => IF runs[r].attempt < runs[r].maxRetries
                   THEN runs[r].pc = "sleep"
                   ELSE runs[r].pc = "done" /\ runs[r].error = runs[r].lastError

\* C13 witness: the second attempt was answered 404, classified UNKNOWN,
\* and is followed by the second backoff delay.
C13_Witness ==
    \E r \in RunIds :
        /\ runs[r].cause = "status" /\ runs[r].st = 404
        /\ runs[r].lastError = "UNKNOWN" /\ runs[r].pc = "sleep"
        /\ runs[r].attempt = 2 /\ runs[r].delays = <<1000, 2000>>

\* A call of submitMessage that its input validation rejects: the text is
\* blank, or no API key is configured.
RejectedSubmit ==
    /\ isMounted
    /\ \E m \in Texts :
          /\ Trim(m) = <<>> \/ ~(Len(apiKey) > 0)
          /\ submitMessage(m)
    /\ lastOp' = "submit"

\* C14: a submit with blank text, or without an API key, changes nothing:
\* status, current message, result, error and the cancellation handle stay as
\* they were, the running request keeps running and no call is started.
C14_RejectedSubmitChangesNothing ==
    [][RejectedSubmit =>
         UNCHANGED <<status, currentMessage, result, error, abortControllerRef,
                     aborted, runs, nruns>>]_vars

-----------------------------------------------------------------------------
(* Properties of the history (checked under SpecHistory) *)

\* The step in which the call of the current submit (the one of the
\* cancellation handle, not aborted) returns its result.
CurrentSucceeds(r) ==
    /\ r = abortControllerRef /\ r \notin aborted
    /\ runs[r].pc = "body"
    /\ runs'[r].outcome = "resolved"

\* C15: when the request of the current submit succeeds in a Running
\* session, the session goes to Complete with the analysis as its result, and
\* one entry holding the trimmed text and that result is appended at the end
\* of the history (which keeps its HistoryCap most recent entries).
C15_SuccessCompletesAndAppends ==
    [][\A r \in RunIds :
         CurrentSucceeds(r) /\ status = CHAT_STATUS.SCANNING
         => /\ status' = CHAT_STATUS.COMPLETE
            /\ result' = runs'[r].result /\ result' # Null
            /\ Trim(runs[r].message) = runs[r].message
            /\ history' = LastN(Append(history,
                                       [id |-> r,
                                        originalMessage |-> runs[r].message,
                                        result |-> result']),
                                HistoryCap)]_vars

-----------------------------------------------------------------------------
(* Properties of the session's transitions (checked under Spec) *)

\* The step in which the call of the current submit fails: afterwards it is
\* still the call of the cancellation handle, and that was not aborted.
CurrentFails(r) ==
    /\ runs[r].pc # "done"
    /\ runs'[r].outcome = "rejected"
    /\ abortControllerRef' = r /\ r \notin aborted'

\* C16: when the current request fails in a Running session, without having
\* been cancelled, the session goes to Failed with an error record whose type
\* is the kind of the PipelineError, or UNKNOWN for any other exception;
\* result stays null and the history is not changed.  (A call that fails its
\* own input validation does so in the step of the submit that made the
\* session Running.)
C16_FailureIsRecorded ==
    [][\A r \in RunIds :
         CurrentFails(r) /\ (runs[r].pc = "none" \/ status = CHAT_STATUS.SCANNING)
         => /\ status' = CHAT_STATUS.ERROR
            /\ error' = ErrorRecord(IF runs'[r].error \in AI_ERROR_TYPES
                                    THEN runs'[r].error ELSE "UNKNOWN")
            /\ result' = Null
            /\ history' = history]_vars

\* C16 witness: the current request ended with a raw SyntaxError after its
\* retries, and the session is Failed with UNKNOWN.
C16_Witness ==
    \E r \in RunIds :
        /\ r = abortControllerRef /\ r \notin aborted
        /\ runs[r].outcome = "rejected" /\ runs[r].error = JsonSyntaxError
        /\ status = CHAT_STATUS.ERROR /\ error = ErrorRecord("UNKNOWN")
        /\ result = Null

\* A call of submitMessage with a non-blank text, in a mounted session whose
\* API key is not blank.
FreshSubmit ==
    /\ isMounted
    /\ Trim(apiKey) # <<>>
    /\ \E m \in Texts :
          /\ Trim(m) # <<>>
          /\ submitMessage(m)
    /\ lastOp' = "submit"

\* C17: in every state of a mounted session with an API key (Idle, Running,
\* Complete or Failed), a submit of non-blank text is accepted: it starts a
\* request and leaves the session Running with error and result cleared.
C17_SubmitAlwaysRecovers ==
    [][FreshSubmit =>
         /\ nruns' = nruns + 1 /\ abortControllerRef' = nruns'
         /\ status' = CHAT_STATUS.SCANNING
         /\ error' = Null
         /\ result' = Null]_vars

\* C18: reset() is safe in every state and idempotent: after any reset(), a
\* second one in a row or one made while a request is running, the session is
\* Idle with no result, no error and an empty current message.
C18_ResetLeavesIdle ==
    [][Reset =>
         /\ status' = CHAT_STATUS.IDLE
         /\ result' = Null
         /\ error' = Null
         /\ currentMessage' = <<>>]_vars

StatusEdges ==
    {<<CHAT_STATUS.IDLE, CHAT_STATUS.SCANNING>>,
     <<CHAT_STATUS.SCANNING, CHAT_STATUS.COMPLETE>>,
     <<CHAT_STATUS.SCANNING, CHAT_STATUS.ERROR>>,
     <<CHAT_STATUS.SCANNING, CHAT_STATUS.IDLE>>,
     <<CHAT_STATUS.COMPLETE, CHAT_STATUS.SCANNING>>,
     <<CHAT_STATUS.ERROR, CHAT_STATUS.SCANNING>>,
     <<CHAT_STATUS.COMPLETE, CHAT_STATUS.IDLE>>,
     <<CHAT_STATUS.ERROR, CHAT_STATUS.IDLE>>}

\* C21: the status moves along StatusEdges only, and a cancel or a reset
\* leaves Idle, never Failed.  A step that starts a request passes through
\* Running and is not constrained here.
C21_StatusFollowsEdges ==
    [][/\ status' # status /\ nruns' = nruns => <<status, status'>> \in StatusEdges
       /\ Cancel \/ Reset => status' = CHAT_STATUS.IDLE]_vars

-----------------------------------------------------------------------------
(* Properties of the pure functions (checked under SpecFunctions) *)

Parsed == input.fn = "parseAIResponse" /\ output # Pending

\* C22: for every content string that carries a JSON object (as the whole
\* string, in a fenced block with or without the json tag, or inside prose),
\* parseAIResponse returns an object equal to the carried one; and it throws
\* INVALID_RESPONSE only when none of the three strategies parses.
C22_ExtractsTheEmbeddedObject ==
    Parsed =>
        /\ input.wrap # "none" =>
              ~output.threw /\ output.value.text = input.embedded
        /\ output.threw =>
              LET s == input.content.text
              IN  /\ output.error = "INVALID_RESPONSE"
                  /\ JsonParse(s).threw
                  /\ HasFenceMatch(s) => JsonParse(Trim(FenceGroup(s))).threw
                  /\ HasObjectMatch(s) => JsonParse(ObjectSpan(s)).threw

Validation == input.fn = "validateAnalysisResponse" /\ output # Pending

\* The checks of the validator in their order, and what each reports.
Checks(d) ==
    <<d.t \in ObjectTypes,
      d.verdict \in {"good_to_send", "needs_edit", "high_risk"},
      d.risks = "array",
      d.rewrites \in ObjectTypes,
      d.short = "string", d.warm = "string", d.confident = "string">>
Descriptions ==
    <<"Response is not an object", "Invalid verdict",
      "Missing or invalid risks array", "Missing or invalid rewrites object",
      "Missing rewrite: short", "Missing rewrite: warm",
      "Missing rewrite: confident">>
Failing(d) == {i \in 1..Len(Descriptions) : ~Checks(d)[i]}

-----------------------------------------------------------------------------
(* Properties of retry (checked under Spec) *)

\* The request of the last submit has ended in Failed: no call is running.
EndedInFailed ==
    /\ status = CHAT_STATUS.ERROR
    /\ InFlight = {}
    /\ currentMessage # <<>>
    /\ Trim(apiKey) # <<>>

\* C24: after a submit that ended in Failed, retry() starts a new request for
\* the same trimmed text and leaves the session Running; when there is no
\* last text, as initially and after reset(), retry() changes nothing.
C24_RetryResubmitsLastText ==
    /\ [][Retry /\ EndedInFailed =>
             /\ nruns' = nruns + 1 /\ abortControllerRef' = nruns'
             /\ runs'[nruns'].message = currentMessage
             /\ runs'[nruns'].pc = "fetch"
             /\ currentMessage' = currentMessage
             /\ status' = CHAT_STATUS.SCANNING]_vars
    /\ [][Retry /\ currentMessage = <<>> => UNCHANGED vars]_vars
    /\ [][Reset => currentMessage' = <<>>]_vars
    /\ [](nruns = 0 /\ lastOp = "none" => currentMessage = <<>>)

\* A submit ended in Failed, retry() was called and its request is running.
C24_Witness ==
    /\ nruns = 2 /\ abortControllerRef = 2
    /\ runs[1].outcome = "rejected" /\ runs[1].error = JsonSyntaxError
    /\ runs[2].pc = "fetch" /\ runs[2].message = currentMessage
    /\ status = CHAT_STATUS.SCANNING /\ error = Null

-----------------------------------------------------------------------------
(* Termination (checked under FairSpec) *)

Suspended == {r \in RunIds : runs[r].pc \in {"fetch", "body", "sleep"}}

-----------------------------------------------------------------------------
(* Properties of cancellation (checked under SpecAnalyze) *)

\* In this step call r, suspended before it, is settled with its signal fired.
SettlesCancelled(r) ==
    /\ r \in Suspended
    /\ runs'[r].pc = "done"
    /\ runs[r].ctl # 0 /\ runs[r].ctl \in aborted'

\* C26: once the caller's signal has fired during a call, whether during a
\* network call or between attempts, the call makes no further network call,
\* and when it ends it fails with TIMEOUT, not with another error.
C26_CancellationStopsTheRun ==
    [][\A r \in RunIds :
         /\ SignalAborted(runs[r]) => runs'[r].calls = runs[r].calls
         /\ SettlesCancelled(r) =>
               runs'[r].outcome = "rejected" /\ runs'[r].error = "TIMEOUT"]_vars

-----------------------------------------------------------------------------
(* Properties of the composed signal (checked under SpecFunctions) *)

Composed == input.fn = "anySignal" /\ output # Pending

\* C27: the signal anySignal returns is aborted exactly when one of its
\* sources is: already at composition when a source was aborted before it,
\* from the moment a source fires afterwards, and not while none has fired.
C27_ComposedSignalIsFanIn ==
    Composed =>
        (output.aborted <=> \E i \in DOMAIN output.sources : output.sources[i])

\* A signal composed of two live sources, the caller's and the timeout's, is
\* aborted after the timeout's fired.
C27_Witness ==
    /\ Composed /\ output.aborted
    /\ Len(input.signals) = 2
    /\ ~input.signals[1] /\ ~input.signals[2]
    /\ ~output.sources[1] /\ output.sources[2]

-----------------------------------------------------------------------------
(* Properties of the backoff delay (checked under SpecFunctions) *)

Delayed == input.fn = "backoff" /\ output # Pending

\* C28: the delay after attempt a is 1000, 2000, 4000, 8000 for a = 1..4 and
\* 10000 for every later attempt: it doubles up to the cap, never exceeds
\* 10000 and is not smaller than the delay of any earlier attempt.
C28_BackoffDoublesUpToCap ==
    Delayed =>
        LET a == input.attempt
            d == output.value
        IN  /\ ~output.threw
            /\ a <= 4 => d = <<1000, 2000, 4000, 8000>>[a]
            /\ a > 4 => d = 10000
            /\ d <= 10000
            /\ \A b \in 1..a : Backoff(b) <= d
            /\ a > 1 /\ d < 10000 => d = 2 * Backoff(a - 1)

\* The delay of an attempt beyond the cap was computed.
C28_Witness ==
    Delayed /\ input.attempt = 6 /\ output.value = BackoffCapMs

-----------------------------------------------------------------------------
(* Properties of invalid content (checked under SpecAnalyze) *)

\* The attempt of call r got a 2xx response with a content, and no analysis
\* came out of it.
ContentRejected(r) ==
    runs[r].cause = "content" /\ runs[r].outcome # "resolved"

-----------------------------------------------------------------------------
(* Properties of history changes during a request (checked under          *)
(* SpecHistory)                                                            *)

Entries(h) == {h[i] : i \in 1..Len(h)}

\* C30: a clearHistory() or removeFromHistory(id) made while a request is in
\* flight survives the request's success: the history after it holds the one
\* new entry and otherwise only entries the history held just before, so no
\* cleared or removed entry comes back.
C30_HistoryChangeSurvives ==
    [][\A r \in RunIds :
         CurrentSucceeds(r)
         => /\ Entries(history') \subseteq
                  Entries(history) \cup {e \in Entries(history') : e.id = r}
            /\ Len(history') <= Len(history) + 1]_vars

-----------------------------------------------------------------------------
(* Invariants of the session state (checked under SpecHistory) *)

\* const hasResult = status === COMPLETE && result !== null, and hasError.
hasResult == status = CHAT_STATUS.COMPLETE /\ result # Null
hasError == status = CHAT_STATUS.ERROR /\ error # Null

\* C31: a Complete session has a result and a Failed session has an error,
\* so hasResult is status = Complete and hasError is status = Failed.
C31_OutcomeMatchesStatus ==
    /\ status = CHAT_STATUS.COMPLETE => result # Null
    /\ status = CHAT_STATUS.ERROR => error # Null
    /\ hasResult <=> status = CHAT_STATUS.COMPLETE
    /\ hasError <=> status = CHAT_STATUS.ERROR

\* Both outcomes were seen: a request failed in a session that shows the
\* result of a succeeded request in its history.
C31_Witness ==
    /\ hasError /\ ~hasResult
    /\ \E i \in 1..Len(history) : history[i].id = 1
    /\ nruns = 2 /\ runs[2].outcome = "rejected"

\* C32 (checked under Spec): while the session is Running neither a result
\* nor an error is set, and a session that is Complete, which under Spec it
\* only is after a successful submit, has no error.
C32_NoOutcomeWhileRunning ==
    /\ status = CHAT_STATUS.SCANNING => result = Null /\ error = Null
    /\ status = CHAT_STATUS.COMPLETE => error = Null

-----------------------------------------------------------------------------
(* Properties of the retry loop's limits (checked under SpecAnalyze) *)

\* A direct call r with a non-blank message and a non-blank API key.
ValidCall(r) ==
    /\ runs[r].pc # "none" /\ ~runs[r].hook
    /\ Trim(runs[r].message) # <<>> /\ Trim(apiKey) # <<>>

\* C33: with maxRetries = 0 and valid inputs analyzeMessage makes no attempt
\* and no network call and fails with UNKNOWN; a call that made an attempt
\* or a network call has maxRetries >= 1.
C33_ZeroRetriesFailsUnknown ==
    \A r \in RunIds :
        ValidCall(r)
        => /\ runs[r].maxRetries = 0
                => /\ runs[r].pc = "done" /\ runs[r].outcome = "rejected"
                   /\ runs[r].error = "UNKNOWN"
                   /\ runs[r].attempt = 0 /\ runs[r].calls = 0
                   /\ runs[r].delays = <<>>
           /\ runs[r].attempt >= 1 \/ runs[r].calls >= 1
                => runs[r].maxRetries >= 1

C33_Witness ==
    \E r \in RunIds :
        /\ ValidCall(r) /\ runs[r].maxRetries = 0
        /\ runs[r].ctl = 0
        /\ runs[r].pc = "done" /\ runs[r].error = "UNKNOWN"

\* The last attempt the call r is allowed has failed by an error of the
\* kinds the loop retries.
FinalAttemptFailed(r) ==
    /\ runs[r].pc # "none" /\ ~runs[r].hook
    /\ runs[r].maxRetries >= 1 /\ runs[r].attempt = runs[r].maxRetries
    /\ runs[r].cause \notin {"none", "abort", "timeout"}
    /\ runs[r].outcome # "resolved"
    /\ runs[r].lastError \notin {"INVALID_API_KEY", "INVALID_RESPONSE"}

\* C34: when attempt number maxRetries fails by a retryable error the call
\* fails at once with that error, no delay being started: a call that used up
\* n attempts waited n - 1 delays.
C34_NoDelayAfterFinalAttempt ==
    \A r \in RunIds :
        FinalAttemptFailed(r)
        => /\ runs[r].pc = "done" /\ runs[r].outcome = "rejected"
           /\ runs[r].error = runs[r].lastError
           /\ runs[r].remaining = 0
           /\ Len(runs[r].delays) = runs[r].maxRetries - 1

C34_Witness ==
    \E r \in RunIds :
        /\ FinalAttemptFailed(r)
        /\ runs[r].maxRetries = 4 /\ runs[r].calls = 4
        /\ runs[r].delays = <<1000, 2000, 4000>>
        /\ runs[r].pc = "done"

-----------------------------------------------------------------------------
(* Properties of the debounced persistence (checked under SpecStore) *)

-----------------------------------------------------------------------------
(* Properties of utils/storage.js (checked under SpecFunctions) *)

\* getItem(key) has run after setItem(key, v).
ReadBack == input.fn = "roundTrip" /\ output # Pending /\ output.t = "got"

\* C36: getItem(key) after a successful setItem(key, v) returns a value
\* equal to v, for every key and every storable value v, the strings whose
\* text is valid JSON included.
C36_StorageRoundTrip ==
    ReadBack /\ output.ok => output.value = input.value

\* clearAll() has run.
ClearedAll == input.fn = "clearAll" /\ output # Pending

\* The keys of the model that begin with 'messageclearance_'.
OwnKeys == {STORAGE_KEYS.API_KEY, STORAGE_KEYS.CHAT_HISTORY, TestKey}

-----------------------------------------------------------------------------
(* Properties of loadFromHistory (checked under SpecHistory) *)

\* The session after loadFromHistory(id), said without the lookup: the first
\* entry with that id is shown, or nothing changes when there is none.
Restored(id) ==
    IF \E i \in 1..Len(history) : history[i].id = id
    THEN \E i \in 1..Len(history) :
            /\ history[i].id = id
            /\ status' = CHAT_STATUS.COMPLETE
            /\ result' = history[i].result
            /\ currentMessage' = history[i].originalMessage
            /\ error' = Null
    ELSE UNCHANGED <<status, currentMessage, result, error>>

\* C38: loadFromHistory(id) makes the session Complete with the result and
\* the original message of the entry with that id and with no error; when
\* no entry has that id the session is left unchanged; history is unchanged
\* in both cases.
C38_LoadFromHistoryRestores ==
    [][\A id \in LoadIds :
          isMounted /\ loadFromHistory(id) =>
              Restored(id) /\ history' = history]_vars

\* Before any submit the session shows a stored analysis: an entry was
\* loaded.
C38_Witness ==
    /\ nruns = 0 /\ status = CHAT_STATUS.COMPLETE
    /\ result = StoredResult /\ currentMessage = <<"a">> /\ error = Null
    /\ history = Stored(HistoryCap)

====
